---- MODULE Spec2Model ----
(***************************************************************************)
(* Model of lib/pip.js of serverless-python-requirements: the orchestration *)
(* of pip installs (installAllRequirements), the command runner             *)
(* (executeCommand), the requirements filter (generateRequirementsFile)     *)
(* and the path conversion for docker on Windows (dockerPathForWin).        *)
(*                                                                          *)
(* Paths are sequences of segments (path.join normalises them), a line of   *)
(* a requirements file and a Windows path are sequences of one-character    *)
(* strings.  A falsy (unset or empty) module or vendor is <<>>, a falsy     *)
(* pipPostInstallScript is "".                                              *)
(***************************************************************************)
EXTENDS Integers, Sequences, FiniteSets, TLC

VARIABLES
    individually,   \* serverless.service.package.individually
    functions,      \* values(serverless.service.functions), in enumeration order
    declared,       \* the functions as the framework handed them over (never written)
    options,        \* this.options
    doneModules,    \* let doneModules = []
    idx,            \* position of forEach in functions (0: not iterating)
    pc,             \* position inside installAllRequirements
    log,            \* the file-system and process operations performed so far
    thrown,         \* the error that left installAllRequirements, or NoError
    res,            \* result of the latest spawnSync
    requirements,   \* lines of the source file read by generateRequirementsFile
    noDeploy,       \* options.noDeploy
    written,        \* lines written by generateRequirementsFile
    platform,       \* process.platform
    winPath,        \* argument of dockerPathForWin
    converted       \* value returned by dockerPathForWin

vars == <<individually, functions, declared, options, doneModules, idx, pc, log,
          thrown, res, requirements, noDeploy, written, platform, winPath, converted>>

orchVars == <<individually, functions, declared, options, doneModules, idx, pc, log,
              thrown, res>>
filterVars == <<requirements, noDeploy, written>>
pathVars == <<platform, winPath, converted>>

----------------------------------------------------------------------------
(* Bounds *)

MaxUnits == 3
MaxLines == 3
MaxPathLen == 6

----------------------------------------------------------------------------
(* path.join, as far as the code uses it *)

RECURSIVE DropDots(_)
DropDots(p) ==
    IF p = <<>> THEN <<>>
    ELSE IF Head(p) = "." THEN DropDots(Tail(p))
    ELSE <<Head(p)>> \o DropDots(Tail(p))

PathJoin(a, b) ==
    LET n == DropDots(a \o b) IN IF n = <<>> THEN <<".">> ELSE n

----------------------------------------------------------------------------
(* Errors *)

NoError == [code |-> "", message |-> "<no error>"]
Error(msg) == [code |-> "Error", message |-> msg]
ManifestReadError == [code |-> "ENOENT", message |-> "ENOENT: no such file or directory, open"]
VendorReadError == [code |-> "ENOENT", message |-> "ENOENT: no such file or directory, scandir"]

NoSpawn == [error |-> NoError, status |-> 0, stderr |-> ""]

(* What spawnSync can return: the process ran (error unset, a status, the      *)
(* captured stderr) or it could not be started (error set).                    *)
SpawnResults ==
    [error : {NoError}, status : {0, 1, 2}, stderr : {"", "conflict"}]
    \cup
    [error : {[code |-> "ENOENT", message |-> "spawnSync ENOENT"],
              [code |-> "EACCES", message |-> "spawnSync EACCES"]},
     status : {-1}, stderr : {""}]

----------------------------------------------------------------------------
(* Strings *)

RECURSIVE JoinStr(_, _)
JoinStr(seq, sep) ==
    IF seq = <<>> THEN ""
    ELSE IF Len(seq) = 1 THEN seq[1]
    ELSE seq[1] \o sep \o JoinStr(Tail(seq), sep)

(* The text of a path on a POSIX host *)
PathStr(p) == JoinStr(p, "/")

----------------------------------------------------------------------------
(* dockerPathForWin: String.prototype.replace with a string pattern replaces *)
(* the first occurrence only.                                                *)

RECURSIVE ReplaceFirst(_, _, _)
ReplaceFirst(s, from, to) ==
    IF s = <<>> THEN <<>>
    ELSE IF Head(s) = from THEN <<to>> \o Tail(s)
    ELSE <<Head(s)>> \o ReplaceFirst(Tail(s), from, to)

RECURSIVE ReplaceAll(_, _, _)
ReplaceAll(s, from, to) ==
    IF s = <<>> THEN <<>>
    ELSE <<IF Head(s) = from THEN to ELSE Head(s)>> \o ReplaceAll(Tail(s), from, to)

(* variant: path.replace(/\\/g, '/') *)
dockerPathForWinAll(opts, path) ==
    IF platform = "win32" /\ opts.dockerizePip
    THEN ReplaceAll(path, "\\", "/")
    ELSE path

dockerPathForWin(opts, path) ==
    IF platform = "win32" /\ opts.dockerizePip
    THEN ReplaceFirst(path, "\\", "/")
    ELSE path

----------------------------------------------------------------------------
(* executeCommand *)

DockerRunOptions(commandAndArguments, useShellAlways) ==
    <<"run", "--rm", "-v", "<bindPath>:/var/task:z">>
    \o (IF options.dockerSsh
        THEN <<"-v", "<HOME>/.ssh/id_rsa:/root/.ssh/id_rsa:z",
               "-v", "<HOME>/.ssh/known_hosts:/root/.ssh/known_hosts:z",
               "-v", "<SSH_AUTH_SOCK>:/tmp/ssh_sock:z",
               "-e", "SSH_AUTH_SOCK=/tmp/ssh_sock">>
        ELSE <<>>)
    \o (IF platform = "linux" THEN <<"-u", "<getuid>">> ELSE <<"-u", "<getDockerUid>">>)
    \o <<options.dockerImage>>
    \o (IF useShellAlways
        THEN <<"/bin/bash", "-c", "'" \o JoinStr(commandAndArguments, " ") \o "'">>
        ELSE commandAndArguments)

(* cmd and cmdOptions handed to spawnSync *)
SpawnCmd(commandAndArguments) ==
    IF options.dockerizePip THEN "docker" ELSE commandAndArguments[1]

SpawnArgs(commandAndArguments, useShellAlways) ==
    IF options.dockerizePip
    THEN DockerRunOptions(commandAndArguments, useShellAlways)
    ELSE Tail(commandAndArguments)

(* variant: the exit status is not looked at *)
ExecuteCommandIgnoresStatus(r) ==
    IF r.error # NoError
    THEN IF r.error.code = "ENOENT"
         THEN IF options.dockerizePip
              THEN Error("docker not found! Please install it.")
              ELSE Error(options.pythonBin \o " not found! Try the pythonBin option.")
         ELSE r.error
    ELSE NoError

(* variant: a nonzero exit is reported without the captured stderr *)
ExecuteCommandDropsStderr(r) ==
    IF r.error # NoError
    THEN IF r.error.code = "ENOENT"
         THEN IF options.dockerizePip
              THEN Error("docker not found! Please install it.")
              ELSE Error(options.pythonBin \o " not found! Try the pythonBin option.")
         ELSE r.error
    ELSE IF r.status # 0
         THEN Error("command failed")
         ELSE NoError

(* What executeCommand throws for a result of spawnSync (NoError: it returns) *)
ExecuteCommandThrows(r) ==
    IF r.error # NoError
    THEN IF r.error.code = "ENOENT"
         THEN IF options.dockerizePip
              THEN Error("docker not found! Please install it.")
              ELSE Error(options.pythonBin \o " not found! Try the pythonBin option.")
         ELSE r.error
    ELSE IF r.status # 0
         THEN Error(r.stderr)
         ELSE NoError

----------------------------------------------------------------------------
(* generateRequirementsFile *)

Delimiters == {"=", "<", ">", " ", "\t"}

(* what String.prototype.trim strips, among the characters modelled *)
WhiteSpace == {" ", "\t", "\f", "\r"}

(* req.split(/[=<> \t]/)[0] *)
RECURSIVE FirstField(_)
FirstField(req) ==
    IF req = <<>> THEN <<>>
    ELSE IF Head(req) \in Delimiters THEN <<>>
    ELSE <<Head(req)>> \o FirstField(Tail(req))

RECURSIVE TrimStart(_)
TrimStart(s) ==
    IF s # <<>> /\ Head(s) \in WhiteSpace THEN TrimStart(Tail(s)) ELSE s

RECURSIVE TrimEnd(_)
TrimEnd(s) ==
    IF s # <<>> /\ s[Len(s)] \in WhiteSpace THEN TrimEnd(SubSeq(s, 1, Len(s) - 1)) ELSE s

Trim(s) == TrimEnd(TrimStart(s))

(* variant: the name is compared without trim() *)
KeepRequirementUntrimmed(req, denied) == FirstField(req) \notin denied

(* the callback of requirements.filter *)
KeepRequirement(req, denied) == Trim(FirstField(req)) \notin denied

RECURSIVE FilterRequirements(_, _)
FilterRequirements(reqs, denied) ==
    IF reqs = <<>> THEN <<>>
    ELSE (IF KeepRequirement(Head(reqs), denied) THEN <<Head(reqs)>> ELSE <<>>)
         \o FilterRequirements(Tail(reqs), denied)

Unwritten == << <<"<unwritten>">> >>

----------------------------------------------------------------------------
(* installAllRequirements *)

ServerlessDir == <<".serverless">>

(* the arguments the two call sites pass on: 212-235 per function, 241-264 once *)
CurModule == functions[idx].module
CurRequirementsPath ==
    IF individually THEN PathJoin(CurModule, options.fileName) ELSE options.fileName
(* variant: the module itself is passed as the target folder *)
CurTargetFolderModule ==
    IF individually THEN PathJoin(<<>>, functions[idx].module) ELSE <<".serverless">>

CurTargetFolder ==
    IF individually THEN PathJoin(ServerlessDir, CurModule) ELSE ServerlessDir
CurVendor == IF individually THEN functions[idx].vendor ELSE options.vendor
CurScript ==
    IF individually THEN functions[idx].pipPostInstallScript
    ELSE options.pipPostInstallScript
CurArgs ==
    IF individually THEN functions[idx].pipPostInstallArgs
    ELSE options.pipPostInstallArgs

TargetRequirementsFolder(targetFolder) == PathJoin(targetFolder, <<"requirements">>)
DotSlsReqs(targetFolder) == PathJoin(targetFolder, <<"requirements.txt">>)

(* fse resolves a relative path against the working directory *)
File(p) == PathJoin(<<>>, p)

(* an entry of log: the function of pip.js that acts, on which files, or with *)
(* which command                                                              *)
Op(name, src, dst, cmd, argv) ==
    [op |-> name, unit |-> idx, source |-> src, target |-> dst, cmd |-> cmd, argv |-> argv]

PipCmd(targetFolder) ==
    <<options.pythonBin, "-m", "pip", "--isolated", "install",
      "-t", dockerPathForWin(options, PathStr(TargetRequirementsFolder(targetFolder))),
      "-r", dockerPathForWin(options, PathStr(DotSlsReqs(targetFolder)))>>
    \o options.pipCmdExtraArgs

PostInstallCmd(command, cmdArgs, targetFolder) ==
    <<command, PathStr(TargetRequirementsFolder(targetFolder))>> \o cmdArgs

(* variant: doneModules.includes(f), the unit, which is never pushed *)
IncludesUnit(seq, x) == FALSE

(* variant: only the module pushed last is compared *)
IncludesLast(seq, x) == seq # <<>> /\ seq[Len(seq)] = x

(* if (!doneModules.includes(f.module)) *)
Includes(seq, x) == \E i \in 1..Len(seq) : seq[i] = x

(* variant: set(f, ['module'], '.') without the test *)
WithModuleAlways(f) == [f EXCEPT !.module = <<".">>]

(* if (!get(f, 'module')) set(f, ['module'], '.') *)
WithModule(f) == IF f.module = <<>> THEN [f EXCEPT !.module = <<".">>] ELSE f

(* 203-205, 240: ensure .serverless and choose the mode *)
Begin ==
    /\ pc = "start"
    /\ IF individually
       THEN /\ pc' = "forEach"
            /\ idx' = 1
       ELSE /\ pc' = "generate"
            /\ idx' = 0
    /\ doneModules' = <<>>
    /\ UNCHANGED <<individually, functions, declared, options, log, thrown, res,
                   filterVars, pathVars>>

(* 207-211: the head of the forEach callback; 239: the end of the iteration *)
ForEach ==
    /\ pc = "forEach"
    /\ IF idx > Len(functions)
       THEN /\ pc' = "done"
            /\ UNCHANGED <<functions, idx>>
       ELSE /\ functions' = [functions EXCEPT ![idx] = WithModule(@)]
            /\ IF Includes(doneModules, functions'[idx].module)
               THEN /\ idx' = idx + 1
                    /\ pc' = "forEach"
               ELSE /\ pc' = "generate"
                    /\ UNCHANGED idx
    /\ UNCHANGED <<individually, declared, options, doneModules, log, thrown, res,
                   filterVars, pathVars>>

(* 112-120: installRequirements up to the filtered requirements file *)
Generate ==
    /\ pc = "generate"
    /\ LET src == IF options.usePipenv THEN DotSlsReqs(CurTargetFolder)
                  ELSE CurRequirementsPath
       IN \E readable \in BOOLEAN :
            IF readable
            THEN /\ log' = Append(log, Op("generateRequirementsFile", File(src),
                                           File(DotSlsReqs(CurTargetFolder)), "", <<>>))
                 /\ written' = FilterRequirements(requirements, noDeploy)
                 /\ pc' = "install"
                 /\ UNCHANGED thrown
            ELSE /\ thrown' = ManifestReadError
                 /\ pc' = "failed"
                 /\ UNCHANGED <<log, written>>
    /\ UNCHANGED <<individually, functions, declared, options, doneModules, idx, res,
                   requirements, noDeploy, pathVars>>

(* executeCommand 21-98 called by `caller`: spawnSync, then the classification *)
Execute(caller, commandAndArguments, useShellAlways, next) ==
    \E r \in SpawnResults :
        /\ res' = r
        /\ log' = Append(log, Op(caller, <<>>, <<>>, SpawnCmd(commandAndArguments),
                                  SpawnArgs(commandAndArguments, useShellAlways)))
        /\ thrown' = ExecuteCommandThrows(r)
        /\ pc' = IF thrown' = NoError THEN next ELSE "failed"

(* variant: doneModules.push(f.module) right after the install *)
InstallThenPush ==
    /\ pc = "install"
    /\ Execute("installRequirements", PipCmd(CurTargetFolder), FALSE, "vendor")
    /\ doneModules' = IF individually /\ thrown' = NoError
                      THEN Append(doneModules, CurModule) ELSE doneModules
    /\ UNCHANGED <<individually, functions, declared, options, idx,
                   filterVars, pathVars>>

(* 122-130: the pip command *)
Install ==
    /\ pc = "install"
    /\ Execute("installRequirements", PipCmd(CurTargetFolder), FALSE, "vendor")
    /\ UNCHANGED <<individually, functions, declared, options, doneModules, idx,
                   filterVars, pathVars>>

(* 219-226, 248-255: copyVendors when a vendor folder is set *)
Vendor ==
    /\ pc = "vendor"
    /\ IF CurVendor # <<>>
       THEN \E listed \in BOOLEAN :
              IF listed
              THEN /\ log' = Append(log, Op("copyVendors", File(CurVendor),
                                 File(TargetRequirementsFolder(CurTargetFolder)), "", <<>>))
                   /\ pc' = "script"
                   /\ UNCHANGED thrown
              ELSE /\ thrown' = VendorReadError
                   /\ pc' = "failed"
                   /\ UNCHANGED log
       ELSE /\ pc' = "script"
            /\ UNCHANGED <<log, thrown>>
    /\ UNCHANGED <<individually, functions, declared, options, doneModules, idx, res,
                   filterVars, pathVars>>

(* 227-236, 256-265: runPostInstallScript when a script is set *)
Script ==
    /\ pc = "script"
    /\ IF CurScript # ""
       THEN Execute("runPostInstallScript",
                    PostInstallCmd(CurScript, CurArgs, CurTargetFolder), TRUE,
                    IF individually THEN "push" ELSE "done")
       ELSE /\ pc' = IF individually THEN "push" ELSE "done"
            /\ UNCHANGED <<log, thrown, res>>
    /\ UNCHANGED <<individually, functions, declared, options, doneModules, idx,
                   filterVars, pathVars>>

(* 237: doneModules.push(f.module) *)
Push ==
    /\ pc = "push"
    /\ doneModules' = Append(doneModules, CurModule)
    /\ idx' = idx + 1
    /\ pc' = "forEach"
    /\ UNCHANGED <<individually, functions, declared, options, log, thrown, res,
                   filterVars, pathVars>>

----------------------------------------------------------------------------
(* The functions and options of a service *)

Fn(m, v, s, a) ==
    [module |-> m, vendor |-> v, pipPostInstallScript |-> s, pipPostInstallArgs |-> a]

Functions ==
    { Fn(<<>>, <<>>, "", <<>>),
      Fn(<<>>, <<"vendor">>, "./hook.sh", <<"-x">>),
      Fn(<<".">>, <<"vendor">>, "./hook.sh", <<"-x">>),
      Fn(<<"a">>, <<>>, "./strip.sh", <<>>),
      Fn(<<"a">>, <<"lib">>, "", <<>>),
      Fn(<<".", "a">>, <<>>, "", <<>>) }

Environments ==
    { [platform |-> "linux", dockerizePip |-> FALSE, dockerSsh |-> FALSE],
      [platform |-> "linux", dockerizePip |-> TRUE, dockerSsh |-> FALSE],
      [platform |-> "darwin", dockerizePip |-> TRUE, dockerSsh |-> TRUE] }

Options(env, vendor, script, args, pipenv) ==
    [fileName |-> <<"requirements.txt">>,
     pythonBin |-> "python",
     pipCmdExtraArgs |-> <<>>,
     dockerImage |-> "lambci/lambda:build-python3.6",
     dockerizePip |-> env.dockerizePip,
     dockerSsh |-> env.dockerSsh,
     usePipenv |-> pipenv,
     vendor |-> vendor,
     pipPostInstallScript |-> script,
     pipPostInstallArgs |-> args]

SeqsUpTo(S, n) == UNION { [1..k -> S] : k \in 0..n }

SampleRequirements ==
    << <<"n", "=", "=", "1">>, <<"b">>, <<"s", ">", "=", "3">> >>

Init ==
    /\ individually \in BOOLEAN
    /\ functions \in SeqsUpTo(Functions, MaxUnits)
    /\ declared = functions
    /\ \E env \in Environments, g \in {1, 2}, pipenv \in BOOLEAN :
         /\ platform = env.platform
         /\ options = IF g = 1 THEN Options(env, <<>>, "", <<>>, pipenv)
                      ELSE Options(env, <<"vendor">>, "./hook.sh", <<"-x">>, pipenv)
    /\ doneModules = <<>>
    /\ idx = 0
    /\ pc = "start"
    /\ log = <<>>
    /\ thrown = NoError
    /\ res = NoSpawn
    /\ requirements = SampleRequirements
    /\ noDeploy = {<<"b">>}
    /\ written = Unwritten
    /\ winPath = <<>>
    /\ converted = <<>>

Next == Begin \/ ForEach \/ Generate \/ Install \/ Vendor \/ Script \/ Push

Spec == Init /\ [][Next]_vars

----------------------------------------------------------------------------
(* generateRequirementsFile alone, on every requirements file of at most     *)
(* MaxLines lines drawn from SampleLines                                     *)

SampleLines ==
    { <<"n", "=", "=", "1">>,
      <<"s", ">", "=", "3">>,
      <<"b">>,
      <<"B">>,
      <<"b", "b">>,
      <<" ", "b">>,
      <<"\f", "b">>,
      <<"b", " ", ">", "1">>,
      <<"b", "<", "2">>,
      <<>> }

DeniedNames == { <<"b">>, <<"B">>, <<>> }

LinuxNative == [platform |-> "linux", dockerizePip |-> FALSE, dockerSsh |-> FALSE]

InitFilter ==
    /\ individually = FALSE
    /\ functions = <<>>
    /\ declared = <<>>
    /\ options = Options(LinuxNative, <<>>, "", <<>>, FALSE)
    /\ platform = "linux"
    /\ doneModules = <<>>
    /\ idx = 0
    /\ pc = "generate"
    /\ log = <<>>
    /\ thrown = NoError
    /\ res = NoSpawn
    /\ requirements \in SeqsUpTo(SampleLines, MaxLines)
    /\ noDeploy \in SUBSET DeniedNames
    /\ written = Unwritten
    /\ winPath = <<>>
    /\ converted = <<>>

NextFilter == Generate

SpecFilter == InitFilter /\ [][NextFilter]_vars

----------------------------------------------------------------------------
(* dockerPathForWin alone, on every path of at most MaxPathLen characters    *)

PathChars == {"C", ":", "\\", "p"}

Platforms == {"linux", "darwin", "win32"}

InitPath ==
    /\ individually = FALSE
    /\ functions = <<>>
    /\ declared = <<>>
    /\ \E d \in BOOLEAN :
         options = Options([LinuxNative EXCEPT !.dockerizePip = d], <<>>, "", <<>>, FALSE)
    /\ platform \in Platforms
    /\ doneModules = <<>>
    /\ idx = 0
    /\ pc = "convert"
    /\ log = <<>>
    /\ thrown = NoError
    /\ res = NoSpawn
    /\ requirements = <<>>
    /\ noDeploy = {}
    /\ written = Unwritten
    /\ winPath \in SeqsUpTo(PathChars, MaxPathLen)
    /\ converted = <<>>

(* a call of dockerPathForWin(options, winPath), as at 126 and 127 *)
Convert ==
    /\ pc = "convert"
    /\ converted' = dockerPathForWin(options, winPath)
    /\ pc' = "converted"
    /\ UNCHANGED <<individually, functions, declared, options, doneModules, idx, log,
                   thrown, res, filterVars, platform, winPath>>

NextPath == Convert

SpecPath == InitPath /\ [][NextPath]_vars

----------------------------------------------------------------------------
(* Properties *)

N == Len(declared)

(* the module identifier of a unit as handed over: unset counts as "." *)
Ident(i) == IF declared[i].module = <<>> THEN <<".">> ELSE declared[i].module

Idents == { Ident(i) : i \in 1..N }

EntriesOf(name) == { k \in 1..Len(log) : log[k].op = name }

(* the names of the operations performed for unit i, in the order of log *)
RECURSIVE OpsIn(_, _)
OpsIn(l, i) ==
    IF l = <<>> THEN <<>>
    ELSE (IF Head(l).unit = i THEN <<Head(l).op>> ELSE <<>>) \o OpsIn(Tail(l), i)

UnitOps(i) == OpsIn(log, i)

IsPrefix(s, t) == Len(s) <= Len(t) /\ SubSeq(t, 1, Len(s)) = s

DotUnits == { i \in 1..N : Ident(i) = <<".">> }
OthersDistinct ==
    \A i, j \in (1..N) \ DotUnits : i # j => Ident(i) # Ident(j)

(* C1: in per-unit mode a run in which no step fails runs the install command *)
(* exactly once per distinct module identifier (unset counts as "."); with M  *)
(* >= 1 units of identifier "." and the others pairwise distinct that is      *)
(* N - M + 1 installs.                                                        *)
InstallOncePerModule ==
    (pc = "done" /\ individually) =>
        /\ \A m \in Idents :
             Cardinality({ k \in EntriesOf("installRequirements") :
                             Ident(log[k].unit) = m }) = 1
        /\ Cardinality(EntriesOf("installRequirements")) = Cardinality(Idents)
        /\ (DotUnits # {} /\ OthersDistinct) =>
             Cardinality(EntriesOf("installRequirements"))
               = N - Cardinality(DotUnits) + 1

InstallOncePerModuleWitness ==
    /\ pc = "done" /\ individually
    /\ N = 3
    /\ Cardinality(DotUnits) = 2
    /\ \E i \in DotUnits : declared[i].module = <<>>
    /\ Cardinality(EntriesOf("installRequirements")) = 2

(* C10: in per-unit mode the first unit, in enumeration order, with a module  *)
(* identifier is the one installed, and for every later unit with the same    *)
(* identifier nothing is done: no filtering, no install, no vendor copy and   *)
(* no post-install script, whatever its own vendor and script are.            *)
FirstUnitWins ==
    individually =>
        \A j \in 1..N :
            IF \E i \in 1..(j - 1) : Ident(i) = Ident(j)
            THEN UnitOps(j) = <<>>
            ELSE (j < idx \/ pc = "done") => UnitOps(j) # <<>>

FirstUnitWinsWitness ==
    /\ pc = "done" /\ individually
    /\ \E i, j \in 1..N :
         /\ i < j
         /\ Ident(i) = Ident(j)
         /\ declared[i].vendor # declared[j].vendor
         /\ declared[i].pipPostInstallScript # declared[j].pipPostInstallScript
         /\ Len(UnitOps(i)) = 2
         /\ UnitOps(j) = <<>>

ExpectedOps(i) ==
    <<"generateRequirementsFile", "installRequirements">>
    \o (IF declared[i].vendor # <<>> THEN <<"copyVendors">> ELSE <<>>)
    \o (IF declared[i].pipPostInstallScript # "" THEN <<"runPostInstallScript">> ELSE <<>>)

Processed == { i \in 1..N : UnitOps(i) # <<>> }

(* C9: in per-unit mode the steps for a module identifier happen in the order *)
(* filter, install, vendor copy (if set), post-install script (if set), push  *)
(* to doneModules, each only after the one before succeeded; an identifier is *)
(* in doneModules only if all its steps completed without error, and no step  *)
(* of a later unit happens before the push.                                   *)
StepsInOrder ==
    individually =>
        /\ \A k, l \in 1..Len(log) : k < l => log[k].unit <= log[l].unit
        /\ \A i \in 1..N : IsPrefix(UnitOps(i), ExpectedOps(i))
        /\ \A k \in 1..Len(doneModules) :
             \E i \in Processed :
                /\ Ident(i) = doneModules[k]
                /\ UnitOps(i) = ExpectedOps(i)
                /\ i < idx
                /\ Cardinality({ h \in Processed : h <= i }) = k
        /\ thrown # NoError => ~Includes(doneModules, Ident(idx))
        /\ \A i, j \in Processed : i < j => Includes(doneModules, Ident(i))
        /\ pc = "push" => UnitOps(idx) = ExpectedOps(idx) /\ thrown = NoError

StepsInOrderWitness ==
    /\ individually
    /\ pc = "forEach"
    /\ Len(doneModules) = 2
    /\ \E i \in Processed : Len(UnitOps(i)) = 4
    /\ \E i \in Processed : Len(UnitOps(i)) = 3

(* C8 as stated: every field of every unit has the value it was handed over   *)
(* with, at every point of every run.                                         *)
UnitsReadOnly == functions = declared

Reached(i) == individually /\ (i < idx \/ (i = idx /\ pc # "forEach"))

(* C8 amended: vendor, pipPostInstallScript and pipPostInstallArgs are never  *)
(* written; module is written only in per-unit mode, only for a unit whose    *)
(* module is unset, and only to "." at the moment the iteration reaches the   *)
(* unit (skipped units included); a per-unit run that completes leaves every  *)
(* such unit with module "."; units the iteration has not reached, and all    *)
(* units in single-pass mode, are untouched.                                  *)
UnitsWrittenOnlyDefault ==
    /\ Len(functions) = N
    /\ \A i \in 1..N :
         /\ functions[i].vendor = declared[i].vendor
         /\ functions[i].pipPostInstallScript = declared[i].pipPostInstallScript
         /\ functions[i].pipPostInstallArgs = declared[i].pipPostInstallArgs
         /\ functions[i].module = IF Reached(i) THEN Ident(i) ELSE declared[i].module
    /\ (individually /\ pc = "done") => \A i \in 1..N : functions[i].module = Ident(i)

UnitsWrittenOnlyDefaultWitness ==
    /\ individually /\ pc = "done"
    /\ \E i, j \in 1..N :
         /\ i < j
         /\ declared[j].module = <<>>
         /\ functions[j].module = <<".">>
         /\ UnitOps(j) = <<>>
         /\ declared[i].module = <<".">>

SpawnFailed == res.error # NoError \/ res.status # 0

(* C2: a fatal error (unreadable manifest, spawn error, tool missing, nonzero *)
(* exit of pip or of the post-install script) ends the run at once: nothing   *)
(* is done afterwards for the failing unit or any later one, and no operation *)
(* is performed twice.                                                        *)
AbortsOnFatalError ==
    /\ [](SpawnFailed => pc = "failed")
    /\ [](thrown # NoError <=> pc = "failed")
    /\ [][pc = "failed" => UNCHANGED vars]_vars
    /\ [][thrown' # NoError =>
            /\ doneModules' = doneModules
            /\ Len(log') <= Len(log) + 1]_vars
    /\ [](\A k, l \in 1..Len(log) :
            (log[k].unit = log[l].unit /\ log[k].op = log[l].op) => k = l)

AbortsOnFatalErrorWitness ==
    /\ pc = "failed" /\ individually
    /\ idx = 1 /\ N = 3
    /\ res.status = 1
    /\ UnitOps(1) = <<"generateRequirementsFile", "installRequirements">>
    /\ declared[1].vendor # <<>>
    /\ Len(log) = 2

Spawned ==
    /\ Len(log') = Len(log) + 1
    /\ log'[Len(log')].op \in {"installRequirements", "runPostInstallScript"}

(* C4: when the command run by executeCommand starts and exits with a nonzero *)
(* status the error thrown has the captured stderr as its message, and when   *)
(* it exits with status 0 nothing is thrown.                                  *)
NonZeroExitThrowsStderr ==
    [][(Spawned /\ res'.error = NoError) =>
          IF res'.status # 0
          THEN thrown' = Error(res'.stderr) /\ thrown'.message = res'.stderr
               /\ pc' = "failed"
          ELSE thrown' = NoError /\ pc' # "failed"]_vars

NonZeroExitThrowsStderrWitness ==
    /\ pc = "failed"
    /\ res.error = NoError /\ res.status = 1 /\ res.stderr = "conflict"
    /\ thrown.message = "conflict"
    /\ log[Len(log)].op = "runPostInstallScript"

LastCmd == log[Len(log)].cmd

(* C3: when spawnSync fails with ENOENT the error thrown names the tool that  *)
(* is missing: the pythonBin message when, and only when, the command that    *)
(* could not be started is the installer binary, the docker message when      *)
(* docker could not be started; any other spawn error is thrown unchanged.    *)
(* For the install command and the post-install script alike.                 *)
ToolMissingNamesTool ==
    (pc = "failed" /\ res.error # NoError) =>
        IF res.error.code = "ENOENT"
        THEN /\ thrown.code = "Error"
             /\ (LastCmd = "docker" /\ options.dockerizePip) =>
                    thrown.message = "docker not found! Please install it."
             /\ (LastCmd = options.pythonBin /\ ~options.dockerizePip) =>
                    thrown.message
                      = options.pythonBin \o " not found! Try the pythonBin option."
             /\ thrown.message
                  = options.pythonBin \o " not found! Try the pythonBin option."
                  => LastCmd = options.pythonBin
        ELSE thrown = res.error

WithoutUnit(l) == [k \in 1..Len(l) |-> [l[k] EXCEPT !.unit = 0]]

RootReqs == <<".serverless", "requirements.txt">>
RootRequirementsFolder == <<".serverless", "requirements">>

SinglePassOps ==
    << [op |-> "generateRequirementsFile", unit |-> 0,
        source |-> IF options.usePipenv THEN RootReqs ELSE File(options.fileName),
        target |-> RootReqs, cmd |-> "", argv |-> <<>>],
       [op |-> "installRequirements", unit |-> 0, source |-> <<>>, target |-> <<>>,
        cmd |-> SpawnCmd(PipCmd(ServerlessDir)),
        argv |-> SpawnArgs(PipCmd(ServerlessDir), FALSE)] >>
    \o (IF options.vendor # <<>>
        THEN << [op |-> "copyVendors", unit |-> 0, source |-> File(options.vendor),
                 target |-> RootRequirementsFolder, cmd |-> "", argv |-> <<>>] >>
        ELSE <<>>)
    \o (IF options.pipPostInstallScript # ""
        THEN << [op |-> "runPostInstallScript", unit |-> 0, source |-> <<>>,
                 target |-> <<>>,
                 cmd |-> SpawnCmd(PostInstallCmd(options.pipPostInstallScript,
                                     options.pipPostInstallArgs, ServerlessDir)),
                 argv |-> SpawnArgs(PostInstallCmd(options.pipPostInstallScript,
                                     options.pipPostInstallArgs, ServerlessDir), TRUE)] >>
        ELSE <<>>)

OneUnitNoModule == N = 1 /\ declared[1].module = <<>>

(* C6 as stated: with exactly one unit and no explicit module, per-unit mode  *)
(* performs the operations single-pass mode performs, on the same files:      *)
(* a completed run in either mode has done SinglePassOps.                     *)
ModesEquivalent ==
    (pc = "done" /\ (~individually \/ OneUnitNoModule)) =>
        WithoutUnit(log) = SinglePassOps

SameSettings ==
    /\ declared[1].vendor = options.vendor
    /\ declared[1].pipPostInstallScript = options.pipPostInstallScript
    /\ declared[1].pipPostInstallArgs = options.pipPostInstallArgs

(* C6 amended: the two modes perform the same operations when, in addition,   *)
(* the unit's vendor, pipPostInstallScript and pipPostInstallArgs equal the   *)
(* ones of the plugin options: per-unit mode reads them from the unit,        *)
(* single-pass mode from the options.                                         *)
ModesEquivalentOnSameSettings ==
    (pc = "done" /\ (~individually \/ (OneUnitNoModule /\ SameSettings))) =>
        WithoutUnit(log) = SinglePassOps

ModesEquivalentOnSameSettingsWitness ==
    /\ pc = "done" /\ individually
    /\ OneUnitNoModule /\ SameSettings
    /\ Len(log) = 4
    /\ WithoutUnit(log) = SinglePassOps

Min(S) == CHOOSE k \in S : \A j \in S : k <= j
Max(S) == CHOOSE k \in S : \A j \in S : k >= j

BeforeFirstDelimiter(line) ==
    LET D == { k \in 1..Len(line) : line[k] \in {"=", "<", ">", " ", "\t"} }
    IN IF D = {} THEN line ELSE SubSeq(line, 1, Min(D) - 1)

Trimmed(t) ==
    LET V == { k \in 1..Len(t) : t[k] \notin {" ", "\t", "\f", "\r"} }
    IN IF V = {} THEN <<>> ELSE SubSeq(t, Min(V), Max(V))

PackageName(line) == Trimmed(BeforeFirstDelimiter(line))

Allowed == { i \in 1..Len(requirements) : PackageName(requirements[i]) \notin noDeploy }

(* C5: generateRequirementsFile writes exactly the lines whose package name   *)
(* is not denied, in their order and unmodified; the package name is the text *)
(* before the first of = < > space tab, trimmed, compared exactly.            *)
FilterKeepsExactlyAllowed ==
    written # Unwritten =>
        /\ Len(written) = Cardinality(Allowed)
        /\ \E f \in [1..Len(written) -> Allowed] :
             /\ \A a, b \in 1..Len(written) : a < b => f[a] < f[b]
             /\ \A a \in 1..Len(written) : written[a] = requirements[f[a]]

FilterKeepsExactlyAllowedWitness ==
    /\ requirements = << <<"n", "=", "=", "1">>, <<"b">>, <<"s", ">", "=", "3">> >>
    /\ noDeploy = { <<"b">> }
    /\ written = << <<"n", "=", "=", "1">>, <<"s", ">", "=", "3">> >>

Backslashes == { k \in 1..Len(winPath) : winPath[k] = "\\" }

====
